---- MODULE Spec2Model ----
(***************************************************************************)
(* The NeoVM smart-contract execution driver of the DNA node:              *)
(*   smartcontract/service/neovm/neovm_service.go  (NeoVmService.Invoke,   *)
(*       SystemCall, getContract, checkStackSize)                          *)
(*   smartcontract/smart_contract.go (SmartContract: Contexts, Gas,        *)
(*       ExecStep, Notifications, CheckWitness, NewExecuteEngine)          *)
(*                                                                         *)
(* Invoke is recursive in the source (APPCALL runs the callee's Invoke to   *)
(* completion inside the caller's loop iteration).  The model keeps the Go  *)
(* call stack of Invoke activations in `services` and gives every          *)
(* activation a position `pc` inside the driver loop, one action per block  *)
(* of the loop body.                                                       *)
(*                                                                         *)
(* Bytecode is a sequence of cells.  An opcode is one cell; an immediate    *)
(* operand (the 20 address bytes of APPCALL, the var-string of SYSCALL, the *)
(* data of PUSHBYTESn, the int16 of JMP) is one cell whatever its byte      *)
(* length, so the instruction pointer counts cells.                        *)
(***************************************************************************)
EXTENDS Integers, Sequences, FiniteSets, TLC

(***************************************************************************)
(* Limits.  The three resource limits of the source are far beyond what an  *)
(* explicit-state search reaches, so the model runs with small values of    *)
(* the same names; every formula below refers to them by name only.        *)
(*   MAX_EXECUTE_ENGINE   1024       in smart_contract.go                  *)
(*   DUPLICATE_STACK_SIZE 2048       in the neovm service package          *)
(*   VM_STEP_LIMIT        8000000    in the neovm service package          *)
(***************************************************************************)
MAX_EXECUTE_ENGINE == 3

DUPLICATE_STACK_SIZE == 4

VM_STEP_LIMIT == 10

\* Largest initial gas of a transaction.
MaxGas == 24

\* Gas is a uint64 in the source; TLC integers are 32 bit, so the wrap-around
\* of the unsigned subtraction is modelled at this modulus.
GasModulus == 1073741824

(***************************************************************************)
(* Opcode byte values (package vm/neovm).                                  *)
(***************************************************************************)
PUSH0 == 0

PUSHBYTES1 == 1

PUSHBYTES20 == 20

PUSHBYTES75 == 75

PUSH1 == 81

PUSH16 == 96

NOP == 97

JMP == 98

RET == 102

APPCALL == 103

SYSCALL == 104

DUPFROMALTSTACK == 106

TOALTSTACK == 107

FROMALTSTACK == 108

DEPTH == 116

DROP == 117

DUP == 118

OVER == 120

TUCK == 125

VERIFY == 173

PACK == 193

UNPACK == 194

THROW == 240

\* A byte that is no opcode of the VM.
INVALID_OP == 255

OPCODE_GAS == 1

(***************************************************************************)
(* Stack items (vm/neovm/types).                                           *)
(***************************************************************************)
Integer(n) == [t |-> "int", v |-> n]

Boolean(b) == [t |-> "bool", v |-> b]

\* A byte array of n bytes with content s.
ByteArray(s, n) == [t |-> "bytes", v |-> s, n |-> n]

Array(items) == [t |-> "array", v |-> items]

\* An InteropObject holding a StorageContext of contract c.
Interop(c) == [t |-> "interop", v |-> c]

\* The nil result of an Invoke whose evaluation stack is empty.
Nil == [t |-> "nil", v |-> 0]

\* Length of the byte-array form of an item (PopByteArray); -1 when the item
\* has no byte-array form.
ByteArrayLen(item) ==
    CASE item.t = "bytes" -> item.n
      [] item.t = "int" -> 1
      [] item.t = "bool" -> 1
      [] OTHER -> -1

(***************************************************************************)
(* Addresses.  A contract's address is the hash of its code                *)
(* (AddressFromVmCode); the model names a code by its address.             *)
(***************************************************************************)
ADDR_LEN == 20

BYTE_ZERO_20 == "ZERO"

\* Contracts present in the ledger (CacheDB.GetContract finds them).
Deployed == {"A", "B", "R", "W", "S", "E", "K"}

Op(code) == [k |-> "op", v |-> code]

Imm(x) == [k |-> "imm", v |-> x]

PushBytes(s) == <<Op(PUSHBYTES1), Imm(s)>>

PushAddr(a) == <<Op(PUSHBYTES20), Imm(a)>>

SysCall(name) == <<Op(SYSCALL), Imm(name)>>

AppCall(a) == <<Op(APPCALL), Imm(a)>>

\* n copies of one cell.
Repeat(cell, n) == [i \in 1..n |-> cell]

RUNTIME_NOTIFY_NAME == "System.Runtime.Notify"

RUNTIME_CHECKWITNESS_NAME == "System.Runtime.CheckWitness"

STORAGE_PUT_NAME == "System.Storage.Put"

STORAGE_GETCONTEXT_NAME == "System.Storage.GetContext"

\* The bytecode of every script the model runs: deployed contracts and
\* transaction scripts.
Programs ==
    [ \* S4: notify a1, call B, notify a2
      A  |-> PushBytes("a1") \o SysCall(RUNTIME_NOTIFY_NAME) \o AppCall("B")
             \o PushBytes("a2") \o SysCall(RUNTIME_NOTIFY_NAME),
      B  |-> PushBytes("b1") \o SysCall(RUNTIME_NOTIFY_NAME),
      \* unbounded recursion through APPCALL
      R  |-> AppCall("R"),
      \* S6: asks CheckWitness about K, about itself and about an account
      W  |-> PushAddr("K") \o SysCall(RUNTIME_CHECKWITNESS_NAME)
             \o PushAddr("W") \o SysCall(RUNTIME_CHECKWITNESS_NAME)
             \o PushAddr("U") \o SysCall(RUNTIME_CHECKWITNESS_NAME),
      \* S3: one storage write
      S  |-> PushBytes("v") \o PushBytes("k") \o SysCall(STORAGE_GETCONTEXT_NAME)
             \o SysCall(STORAGE_PUT_NAME),
      \* deployed with empty code
      E  |-> <<>>,
      \* calls W, then asks CheckWitness itself
      K  |-> AppCall("W") \o <<Op(DROP)>> \o PushAddr("U")
             \o SysCall(RUNTIME_CHECKWITNESS_NAME),
      \* transaction scripts -------------------------------------------
      \* three frames deep: K, which calls W
      T1 |-> AppCall("K") \o AppCall("B"),
      \* S5: nested calls succeed, then the caller fails
      T2 |-> AppCall("S") \o AppCall("B") \o SysCall("System.Bogus"),
      \* target address popped from the stack; the callee sees a copy
      T3 |-> <<Op(PUSH1)>> \o PushAddr("B") \o AppCall(BYTE_ZERO_20) \o <<Op(NOP)>>,
      \* endless loop
      T4 |-> <<Op(NOP), Op(JMP), Imm(-1)>>,
      \* pushes up to the stack limit, then PUSH16
      T5 |-> <<Op(PUSH1), Op(TOALTSTACK)>> \o Repeat(Op(PUSH1), DUPLICATE_STACK_SIZE - 1)
             \o <<Op(PUSH16), Op(NOP)>>,
      \* pushes one more than the stack limit with a checked opcode
      T6 |-> <<Op(PUSH1)>> \o Repeat(Op(DUP), DUPLICATE_STACK_SIZE) \o <<Op(NOP)>>,
      \* validator failure, fault, unknown contract, empty callee
      T7 |-> SysCall(RUNTIME_NOTIFY_NAME),
      T8 |-> <<Op(PUSH1), Op(THROW)>>,
      T9 |-> AppCall("X"),
      T10 |-> <<Op(PUSH1)>> \o AppCall("E"),
      \* two callees, then RET before the end of the code
      T11 |-> AppCall("W") \o AppCall("S") \o <<Op(DROP), Op(RET), Op(NOP)>>,
      \* operands cut off, operand of the wrong length, invalid opcode
      T12 |-> <<Op(PUSH1), Op(APPCALL)>>,
      T13 |-> <<Op(PUSH1)>> \o AppCall(BYTE_ZERO_20),
      T14 |-> <<Op(DUP)>>,
      T15 |-> <<Op(INVALID_OP)>>,
      T16 |-> AppCall(BYTE_ZERO_20),
      \* two calls, then as many NOPs as bring the loop to its last iteration
      \* within the step limit at the end of the script
      T17 |-> AppCall("B") \o AppCall("B") \o Repeat(Op(NOP), VM_STEP_LIMIT - 8),
      \* RET before the end of the code, with an item on the stack
      T18 |-> <<Op(PUSH1), Op(RET), Op(NOP)>>,
      \* one push more than the stack limit, the last one ending the code
      T19 |-> Repeat(Op(PUSH1), DUPLICATE_STACK_SIZE + 1),
      \* an array packed and unpacked again, then the depth
      T20 |-> <<Op(PUSH1), Op(PUSH1), Op(PUSH1 + 1), Op(PACK), Op(UNPACK),
                Op(DEPTH), Op(NOP)>>,
      \* VERIFY: a good signature, then a bad one
      V1 |-> PushBytes("m") \o PushBytes("sigPKm") \o PushBytes("PK")
             \o <<Op(VERIFY), Op(DROP)>>
             \o PushBytes("m") \o PushBytes("junk") \o PushBytes("PK")
             \o <<Op(VERIFY)>>,
      \* VERIFY with a malformed public key
      V2 |-> PushBytes("m") \o PushBytes("sigPKm") \o PushBytes("XX")
             \o <<Op(VERIFY), Op(NOP)>>,
      \* VERIFY with two items only, a well-formed public key on top
      V3 |-> PushBytes("sigPKm") \o PushBytes("PK") \o <<Op(VERIFY), Op(NOP)>>,
      \* VERIFY with a signature item that has no byte-array form
      V4 |-> PushBytes("m") \o SysCall(STORAGE_GETCONTEXT_NAME) \o PushBytes("PK")
             \o <<Op(VERIFY), Op(NOP)>> ]

\* The code a service runs, by address.
Code(a) == Programs[a]

\* common.AddressFromVmCode: the address of a code is its hash; codes are
\* named by it.
AddressFromVmCode(a) == a

VARIABLES
    Contexts,       \* SmartContract.Contexts: sequence of context.Context
    Notifications,  \* SmartContract.Notifications
    Gas,            \* SmartContract.Gas (uint64)
    ExecStep,       \* SmartContract.ExecStep
    PreExec,        \* SmartContract.PreExec
    CacheDB,        \* SmartContract.CacheDB: the storage items written
    Tx,             \* Config.Tx: what GetSignatureAddresses returns for it
    services,       \* the NeoVmService activations, outermost first
    receipt,        \* what the transaction's caller observes of the execution
    ontid,          \* a call of an ontid helper: the function, its argument,
                    \* utils.OntIDContractAddress, and what it returned
    hist            \* history of the execution, read by the properties only:
                    \*   emitted  every notification in the order of its emission,
                    \*            with the activations that were running
                    \*   InitGas  the gas the transaction started with
                    \*   opcodes  the number of opcodes fetched so far
                    \*   halts    the number of loop heads that found the halt
                    \*            condition
                    \*   actIds   the number of each activation in `services`
                    \*   nacts    the number of activations created so far
                    \*   atCall   for each activation in `services`, Contexts
                    \*            when its caller's APPCALL created it
                    \*   witness  every Runtime.CheckWitness call: the address
                    \*            asked, the answer, Contexts at the call
                    \*   charged  the sum of the prices CheckUseGas accepted
                    \*   deep     the part of it charged by nested activations

vars == <<Contexts, Notifications, Gas, ExecStep, PreExec, CacheDB, Tx, services,
          receipt, ontid, hist>>

(***************************************************************************)
(* smart_contract.go                                                       *)
(***************************************************************************)
NoContext == [ContractAddress |-> "nil"]

\* PushContext push current context to smart contract
PushContext(ctxs, context) == Append(ctxs, context)

CurrentContext(ctxs) ==
    IF Len(ctxs) < 1 THEN NoContext ELSE ctxs[Len(ctxs)]

CallingContextTop(ctxs) ==
    IF Len(ctxs) < 1 THEN NoContext ELSE ctxs[Len(ctxs)]

CallingContext(ctxs) ==
    IF Len(ctxs) < 2 THEN NoContext ELSE ctxs[Len(ctxs) - 1]

EntryContext(ctxs) ==
    IF Len(ctxs) < 1 THEN NoContext ELSE ctxs[1]

PopContextNever(ctxs) == ctxs

\* A PopContext that also removes the last context left.
PopContextAlways(ctxs) ==
    IF Len(ctxs) > 0 THEN SubSeq(ctxs, 1, Len(ctxs) - 1) ELSE ctxs

PopContext(ctxs) ==
    IF Len(ctxs) > 1 THEN SubSeq(ctxs, 1, Len(ctxs) - 1) ELSE ctxs

PushNotificationsFront(all, notifications) == notifications \o all

PushNotifications(all, notifications) == all \o notifications

CheckExecStepNoLimit(step) == [ok |-> TRUE, ExecStep |-> step + 1]

\* CheckExecStep: [ok, the new ExecStep]
CheckExecStep(step) ==
    IF step >= VM_STEP_LIMIT
    THEN [ok |-> FALSE, ExecStep |-> step]
    ELSE [ok |-> TRUE, ExecStep |-> step + 1]

\* uint64 subtraction.
SubUint(a, b) == (a - b) % GasModulus

CheckUseGasNoGuard(have, gas) == [ok |-> TRUE, Gas |-> SubUint(have, gas)]

\* A CheckUseGas that refuses the charge that would leave no gas.
CheckUseGasStrict(have, gas) ==
    IF have <= gas
    THEN [ok |-> FALSE, Gas |-> have]
    ELSE [ok |-> TRUE, Gas |-> SubUint(have, gas)]

\* CheckUseGas: [ok, the new Gas]
CheckUseGas(have, gas) ==
    IF have < gas
    THEN [ok |-> FALSE, Gas |-> have]
    ELSE [ok |-> TRUE, Gas |-> SubUint(have, gas)]

checkContexts(ctxs) == ~(Len(ctxs) > MAX_EXECUTE_ENGINE)

\* checkAccountAddress: the loop over Tx.GetSignatureAddresses()
checkAccountAddress(tx, address) ==
    IF tx.err
    THEN FALSE
    ELSE \E i \in 1..Len(tx.addresses) : tx.addresses[i] = address

checkContractAddress(ctxs, address) ==
    /\ CallingContext(ctxs) # NoContext
    /\ CallingContext(ctxs).ContractAddress = address

CheckWitness(tx, ctxs, address) ==
    checkAccountAddress(tx, address) \/ checkContractAddress(ctxs, address)

(***************************************************************************)
(* The execution engine (vm/neovm): stacks and single opcodes.             *)
(***************************************************************************)
Count(stack) == Len(stack)

\* Peek(0) is the top of the stack, the last element of the sequence.
Peek(stack, i) == stack[Len(stack) - i]

Pop(stack) == SubSeq(stack, 1, Len(stack) - 1)

PopN(stack, n) == SubSeq(stack, 1, Len(stack) - n)

Push(stack, item) == Append(stack, item)

CopyToNothing(from, to) == to

\* RandomAccessStack.CopyTo: the items are appended to the target stack in
\* the same order.
CopyTo(from, to) == to \o from

\* The state of a NeoVmService right after NewExecuteEngine(code).
NewService(code) ==
    [ Code |-> code, ip |-> 0, eval |-> <<>>, alt |-> <<>>,
      Notifications |-> <<>>, OpCode |-> 0, active |-> FALSE,
      pc |-> "start", err |-> <<>>, result |-> Nil ]

\* The activation returns (nil, err).
Fail(f, e) == [f EXCEPT !.pc = "error", !.err = e]

\* errors.NewDetailErr(err, ..., msg)
NewDetailErr(err, msg) == <<msg>> \o err

IsPushBytes(op) == op >= PUSHBYTES1 /\ op <= PUSHBYTES75

KnownOps ==
    (PUSHBYTES1..PUSHBYTES75) \cup (PUSH1..PUSH16) \cup
    {PUSH0, NOP, JMP, RET, APPCALL, SYSCALL, DUPFROMALTSTACK, TOALTSTACK,
     FROMALTSTACK, DEPTH, DROP, DUP, OVER, TUCK, VERIFY, PACK, UNPACK, THROW}

\* ExecutionEngine.ValidateOp: the opcode exists and its operands are on the
\* stacks.
ValidateOp(f) ==
    LET op == f.OpCode
        n == Count(f.eval)
    IN  /\ op \in KnownOps
        /\ CASE op \in {DROP, DUP, TOALTSTACK} -> n >= 1
              [] op \in {OVER, TUCK} -> n >= 2
              [] op \in {FROMALTSTACK, DUPFROMALTSTACK} -> Count(f.alt) >= 1
              [] op = UNPACK -> n >= 1 /\ Peek(f.eval, 0).t \in {"array", "struct"}
              [] op = PACK -> /\ n >= 1
                              /\ Peek(f.eval, 0).t = "int"
                              /\ Peek(f.eval, 0).v >= 0
                              /\ Peek(f.eval, 0).v <= n - 1
              [] OTHER -> TRUE

\* The name under which the gas schedule prices an opcode (OpExec.Name).
OpName(op) ==
    CASE op = APPCALL -> "APPCALL"
      [] op = SYSCALL -> "SYSCALL"
      [] op = VERIFY -> "VERIFY"
      [] OTHER -> "OPCODE"

\* GasPrice: the gas schedule, by opcode name or service name.
GasPrice(name) ==
    CASE name = "APPCALL" -> 2
      [] name = RUNTIME_CHECKWITNESS_NAME -> 2
      [] name = STORAGE_PUT_NAME -> 3
      [] OTHER -> OPCODE_GAS

\* The items of an array pushed by UNPACK: last element first, so that the
\* first element ends up on top, below the count.
Reverse(seq) == [i \in 1..Len(seq) |-> seq[Len(seq) + 1 - i]]

\* ExecutionEngine.StepInto for the opcodes Invoke leaves to the engine:
\* [f: the service after the opcode, err: the error returned, fault: State = FAULT]
StepInto(f) ==
    LET op == f.OpCode
        code == Code(f.Code)
        ok(g) == [f |-> g, err |-> <<>>, fault |-> FALSE]
        bad(e) == [f |-> f, err |-> <<e>>, fault |-> TRUE]
    IN  CASE IsPushBytes(op) ->
               IF f.ip >= Len(code)
               THEN bad("read bytes error")
               ELSE ok([f EXCEPT !.eval = Push(@, ByteArray(code[f.ip + 1].v, op)),
                                 !.ip = @ + 1])
          [] op = PUSH0 -> ok([f EXCEPT !.eval = Push(@, ByteArray("", 0))])
          [] op \in PUSH1..PUSH16 ->
               ok([f EXCEPT !.eval = Push(@, Integer(op - PUSH1 + 1))])
          [] op = NOP -> ok(f)
          [] op = JMP ->
               IF f.ip >= Len(code)
               THEN bad("read offset error")
               ELSE LET target == (f.ip + 1) + code[f.ip + 1].v - 2
                    IN  IF target < 0 \/ target > Len(code)
                        THEN [f |-> f, err |-> <<>>, fault |-> TRUE]
                        ELSE ok([f EXCEPT !.ip = target])
          [] op = RET -> ok([f EXCEPT !.active = FALSE])
          [] op = DUPFROMALTSTACK -> ok([f EXCEPT !.eval = Push(@, Peek(f.alt, 0))])
          [] op = TOALTSTACK ->
               ok([f EXCEPT !.alt = Push(@, Peek(f.eval, 0)), !.eval = Pop(@)])
          [] op = FROMALTSTACK ->
               ok([f EXCEPT !.eval = Push(@, Peek(f.alt, 0)), !.alt = Pop(@)])
          [] op = DEPTH -> ok([f EXCEPT !.eval = Push(@, Integer(Count(f.eval)))])
          [] op = DROP -> ok([f EXCEPT !.eval = Pop(@)])
          [] op = DUP -> ok([f EXCEPT !.eval = Push(@, Peek(f.eval, 0))])
          [] op = OVER -> ok([f EXCEPT !.eval = Push(@, Peek(f.eval, 1))])
          [] op = TUCK ->
               ok([f EXCEPT !.eval = PopN(@, 2) \o
                       <<Peek(f.eval, 0), Peek(f.eval, 1), Peek(f.eval, 0)>>])
          [] op = PACK ->
               LET n == Peek(f.eval, 0).v
                   rest == Pop(f.eval)
               IN  ok([f EXCEPT !.eval =
                          Push(PopN(rest, n),
                               Array(Reverse(SubSeq(rest, Len(rest) - n + 1, Len(rest)))))])
          [] op = UNPACK ->
               LET a == Peek(f.eval, 0).v
               IN  ok([f EXCEPT !.eval =
                          Push(Pop(@) \o Reverse(a), Integer(Len(a)))])
          [] OTHER -> [f |-> f, err |-> <<>>, fault |-> TRUE]

(***************************************************************************)
(* neovm_service.go                                                        *)
(***************************************************************************)
checkStackSize(f) ==
    LET op == f.OpCode
        size == IF op < PUSH16
                THEN 1
                ELSE CASE op \in {DEPTH, DUP, OVER, TUCK} -> 1
                       [] op = UNPACK /\ Count(f.eval) > 0 /\
                          Peek(f.eval, 0).t \in {"array", "struct"} ->
                              Len(Peek(f.eval, 0).v)
                       [] OTHER -> 0
    IN  IF op >= PUSH16 /\ op = UNPACK /\ Count(f.eval) = 0
        THEN FALSE
        ELSE ~(size + Count(f.eval) + Count(f.alt) > DUPLICATE_STACK_SIZE)

\* getContract: the code deployed at an address, <<>> with ok = FALSE when
\* CacheDB.GetContract finds none.
getContract(address) ==
    IF address \in Deployed
    THEN [ok |-> TRUE, code |-> address]
    ELSE [ok |-> FALSE, code |-> ""]

\* ServiceMap: the registered services, each with its Validator ("nil" when
\* the entry names none).
ServiceMap ==
    [ n \in {RUNTIME_NOTIFY_NAME, RUNTIME_CHECKWITNESS_NAME, STORAGE_PUT_NAME,
             STORAGE_GETCONTEXT_NAME} |->
        [ Validator |-> CASE n = RUNTIME_NOTIFY_NAME -> "validatorNotify"
                          [] n = RUNTIME_CHECKWITNESS_NAME -> "validatorCheckWitness"
                          [] OTHER -> "nil" ] ]

\* validatorNotify, validatorCheckWitness: one parameter on the stack.
Validator(name, f) == Count(f.eval) >= 1

\* CacheDB.Put: the item written replaces the one under the same key.
CachePut(cache, contract, key, value) ==
    {w \in cache : ~(w.contract = contract /\ w.key = key)}
        \cup {[contract |-> contract, key |-> key, value |-> value]}

RuntimeNotify(f, ctxs) ==
    [ f |-> [f EXCEPT !.eval = Pop(@),
                      !.Notifications =
                          Append(@, [ContractAddress |-> CurrentContext(ctxs).ContractAddress,
                                     States |-> Peek(f.eval, 0)])],
      err |-> <<>> ]

RuntimeCheckWitness(f, ctxs, tx) ==
    LET data == Peek(f.eval, 0)
    IN  IF ByteArrayLen(data) = ADDR_LEN
        THEN [ f |-> [f EXCEPT !.eval = Push(Pop(@), Boolean(CheckWitness(tx, ctxs, data.v)))],
               err |-> <<>> ]
        ELSE [ f |-> [f EXCEPT !.eval = Pop(@)],
               err |-> <<"[RuntimeCheckWitness] data invalid">> ]

StorageGetContext(f, ctxs) ==
    [ f |-> [f EXCEPT !.eval = Push(@, Interop(CurrentContext(ctxs).ContractAddress))],
      err |-> <<>> ]

\* The stack holds, from the top: storage context, key, value.
StoragePutCheck(f, ctxs) ==
    IF Count(f.eval) < 3
    THEN <<"[Context] Too few input parameters">>
    ELSE IF Peek(f.eval, 0).t # "interop"
    THEN <<"[Context] Get storageContext invalid">>
    ELSE IF Peek(f.eval, 0).v # CurrentContext(ctxs).ContractAddress
    THEN <<"[StoragePut] check context error">>
    ELSE IF ByteArrayLen(Peek(f.eval, 1)) < 0 \/ ByteArrayLen(Peek(f.eval, 2)) < 0
    THEN <<"[StoragePut] get byte array error">>
    ELSE <<>>

StoragePut(f, ctxs, cache) ==
    IF StoragePutCheck(f, ctxs) # <<>>
    THEN cache
    ELSE CachePut(cache, Peek(f.eval, 0).v, Peek(f.eval, 1).v, Peek(f.eval, 2).v)

\* service.Execute(this, engine): [f, CacheDB, err]
ServiceExecute(name, f, ctxs, tx, cache) ==
    CASE name = RUNTIME_NOTIFY_NAME ->
           [f |-> RuntimeNotify(f, ctxs).f, CacheDB |-> cache, err |-> <<>>]
      [] name = RUNTIME_CHECKWITNESS_NAME ->
           [f |-> RuntimeCheckWitness(f, ctxs, tx).f, CacheDB |-> cache,
            err |-> RuntimeCheckWitness(f, ctxs, tx).err]
      [] name = STORAGE_GETCONTEXT_NAME ->
           [f |-> StorageGetContext(f, ctxs).f, CacheDB |-> cache, err |-> <<>>]
      [] name = STORAGE_PUT_NAME ->
           [f |-> IF StoragePutCheck(f, ctxs) = <<>>
                  THEN [f EXCEPT !.eval = PopN(@, 3)] ELSE f,
            CacheDB |-> StoragePut(f, ctxs, cache),
            err |-> StoragePutCheck(f, ctxs)]

ERR_CHECK_STACK_SIZE == <<"[NeoVmService] vm execution exceeded the max stack size!">>

ERR_EXECUTE_CODE == <<"[NeoVmService] vm execution code was invalid!">>

ERR_GAS_INSUFFICIENT == <<"[NeoVmService] insufficient gas for transaction!">>

VM_EXEC_STEP_EXCEED == <<"[NeoVmService] vm execution exceeded the step limit!">>

CONTRACT_NOT_EXIST == <<"[NeoVmService] the given contract does not exist!">>

VM_EXEC_FAULT == <<"[NeoVmService] vm execution encountered a state fault!">>

ERR_NOT_SUPPORTED == <<"[SystemCall] the given service is not supported">>

ERR_VALIDATOR == "[SystemCall] there was a service validator error!"

ERR_SERVICE_EXEC == "[SystemCall] service execution error!"

ERR_SYSCALL == "[NeoVmService] service system call error!"

ERR_ENGINE_LIMIT == <<"engine over max limit!">>

\* The price-and-charge step of SystemCall, without the balance check.
ServiceChargeAlways(gas, serviceName) ==
    [ok |-> TRUE, Gas |-> IF gas < GasPrice(serviceName) THEN gas
                          ELSE gas - GasPrice(serviceName)]

\* The price-and-charge step of SystemCall.
ServiceCharge(gas, serviceName) == CheckUseGas(gas, GasPrice(serviceName))

\* SystemCall: [f: the service afterwards, Gas, CacheDB, err, ran: the service's
\* Execute was called]
SystemCall(f, gas, ctxs, tx, cache) ==
    LET code == Code(f.Code)
        out(g, left, db, e, ran) ==
            [f |-> g, Gas |-> left, CacheDB |-> db, err |-> e, ran |-> ran]
    IN  IF f.ip >= Len(code)
        THEN out(f, gas, cache, <<"read var string error">>, FALSE)
        ELSE
        LET serviceName == code[f.ip + 1].v
            g == [f EXCEPT !.ip = @ + 1]
        IN  IF serviceName \notin DOMAIN ServiceMap
            THEN out(g, gas, cache, ERR_NOT_SUPPORTED, FALSE)
            ELSE IF /\ ServiceMap[serviceName].Validator # "nil"
                    /\ ~Validator(serviceName, g)
            THEN out(g, gas, cache,
                     NewDetailErr(<<"[Validator] too few input parameters">>, ERR_VALIDATOR),
                     FALSE)
            ELSE IF ~ServiceCharge(gas, serviceName).ok
            THEN out(g, gas, cache, ERR_GAS_INSUFFICIENT, FALSE)
            ELSE
            LET r == ServiceExecute(serviceName, g, ctxs, tx, cache)
                left == ServiceCharge(gas, serviceName).Gas
            IN  IF r.err # <<>>
                THEN out(r.f, left, r.CacheDB, NewDetailErr(r.err, ERR_SERVICE_EXEC), TRUE)
                ELSE out(r.f, left, r.CacheDB, <<>>, TRUE)

(***************************************************************************)
(* ontid/utils.go.  Byte strings are sequences of numbers 0..255.          *)
(***************************************************************************)
\* The largest id length encodeID accepts.
MAX_ID_LEN == 255

\* The number of values of a Go byte.
ByteModulus == 256

\* The longest id the model passes to encodeID.
MaxIdLen == 257

\* utils.OntIDContractAddress, a common.Address: an array of ADDR_LEN bytes.
OntIDContractAddress == [i \in 1..ADDR_LEN |-> IF i = ADDR_LEN THEN 3 ELSE 0]

\* The conversion byte(n) of an int.
ToByte(n) == n % ByteModulus

\* append(s, elems...) on a slice without spare capacity, such as a[:] of an
\* array a: the result is a new array, s is not written.
GoAppend(s, elems) == s \o elems

ERR_ENCODE_ID == "encode ID error: invalid ID length"

\* The variant left in a comment at line 61: the length byte and the id,
\* without the contract address.
encodeIDNoPrefix(id) ==
    LET length == Len(id)
    IN  IF length = 0 \/ length > MAX_ID_LEN
        THEN [ret |-> <<>>, err |-> ERR_ENCODE_ID]
        ELSE [ret |-> GoAppend(<<ToByte(length)>>, id), err |-> ""]

\* encodeID: [ret: the bytes returned, err: the error, "" for nil]
encodeID(id) ==
    LET length == Len(id)
    IN  IF length = 0 \/ length > MAX_ID_LEN
        THEN [ret |-> <<>>, err |-> ERR_ENCODE_ID]
        ELSE LET enc == GoAppend(OntIDContractAddress, <<ToByte(length)>>)
             IN  [ret |-> GoAppend(enc, id), err |-> ""]

ERR_DECODE_ID == "decode ID error: invalid data length"

\* A decodeID that returns the bytes from the length byte on.
decodeIDKeepLength(data) ==
    LET prefix == Len(OntIDContractAddress)
        size == Len(data)
    IN  IF size < prefix
        THEN [ret |-> <<>>, err |-> ERR_DECODE_ID, panic |-> FALSE]
        ELSE IF prefix >= size
        THEN [ret |-> <<>>, err |-> "", panic |-> TRUE]
        ELSE IF size # data[prefix + 1] + 1 + prefix
        THEN [ret |-> <<>>, err |-> ERR_DECODE_ID, panic |-> FALSE]
        ELSE [ret |-> SubSeq(data, prefix + 1, size), err |-> "", panic |-> FALSE]

\* decodeID: [ret: the bytes returned, err: the error, "" for nil, panic: the
\* call ended in a run-time panic].  The Go index data[prefix] is element
\* prefix + 1 of the sequence; it is evaluated whenever size < prefix is
\* false, and panics with "index out of range" when prefix >= size.
decodeID(data) ==
    LET prefix == Len(OntIDContractAddress)
        size == Len(data)
    IN  IF size < prefix
        THEN [ret |-> <<>>, err |-> ERR_DECODE_ID, panic |-> FALSE]
        ELSE IF prefix >= size
        THEN [ret |-> <<>>, err |-> "", panic |-> TRUE]
        ELSE IF size # data[prefix + 1] + 1 + prefix
        THEN [ret |-> <<>>, err |-> ERR_DECODE_ID, panic |-> FALSE]
        ELSE [ret |-> SubSeq(data, prefix + 2, size), err |-> "", panic |-> FALSE]

(***************************************************************************)
(* State machine.                                                          *)
(***************************************************************************)
\* What GetSignatureAddresses can return for the transaction: the signers'
\* addresses, or an error and no addresses.
TxChoices ==
    {[addresses |-> a, err |-> FALSE] : a \in {<<>>, <<"U">>, <<"W">>, <<"U", "W">>}}
        \cup {[addresses |-> <<>>, err |-> TRUE]}

NoReceipt ==
    [state |-> "NONE", result |-> Nil, notifications |-> <<>>, delta |-> {},
     gas_consumed |-> 0]

\* No ontid helper is being called.
NoOntIdCall ==
    [fn |-> "none", data |-> <<>>, addr |-> OntIDContractAddress, ret |-> <<>>,
     err |-> "", panic |-> FALSE, orig |-> <<>>, pc |-> "idle"]

\* The SmartContract as the transaction handler builds it, and the engine
\* NewExecuteEngine returns for the transaction's code, before Invoke.
Init ==
    /\ Contexts = <<>>
    /\ Notifications = <<>>
    /\ Gas \in 0..MaxGas
    /\ ExecStep = 0
    /\ PreExec \in BOOLEAN
    /\ CacheDB = {}
    /\ Tx \in TxChoices
    /\ \E code \in DOMAIN Programs : services = <<NewService(code)>>
    /\ receipt = NoReceipt
    /\ ontid = NoOntIdCall
    /\ hist = [emitted |-> <<>>, InitGas |-> Gas, opcodes |-> 0, halts |-> 0,
               actIds |-> <<1>>, nacts |-> 1, atCall |-> << <<>> >>,
               witness |-> <<>>, charged |-> 0, deep |-> 0]

top == services[Len(services)]

SetTop(f) == [services EXCEPT ![Len(services)] = f]

Running == receipt.state = "NONE"

\* Invoke, lines 134-139: reject empty code, push the context and the
\* engine's execution context.
InvokeStart ==
    /\ Running
    /\ top.pc = "start"
    /\ IF Len(Code(top.Code)) = 0
       THEN /\ services' = SetTop(Fail(top, ERR_EXECUTE_CODE))
            /\ UNCHANGED Contexts
       ELSE /\ Contexts' = PushContext(Contexts,
                                [ContractAddress |-> AddressFromVmCode(top.Code)])
            /\ services' = SetTop([top EXCEPT !.active = TRUE, !.pc = "loop"])
    /\ UNCHANGED <<ontid, Notifications, Gas, ExecStep, PreExec, CacheDB, Tx, receipt,
                   hist>>

\* A loop head that counts and limits the steps in both modes.
LoopHeadAlways ==
    /\ Running
    /\ top.pc = "loop"
    /\ IF ~CheckExecStep(ExecStep).ok
       THEN /\ services' = SetTop(Fail(top, VM_EXEC_STEP_EXCEED))
            /\ ExecStep' = CheckExecStep(ExecStep).ExecStep
       ELSE /\ ExecStep' = CheckExecStep(ExecStep).ExecStep
            /\ IF ~top.active \/ top.ip >= Len(Code(top.Code))
               THEN services' = SetTop([top EXCEPT !.pc = "halt"])
               ELSE services' = SetTop([top EXCEPT !.pc = "exec"])
    /\ hist' = [hist EXCEPT !.halts =
                    IF services'[Len(services)].pc = "halt" THEN @ + 1 ELSE @]
    /\ UNCHANGED <<ontid, Contexts, Notifications, Gas, PreExec, CacheDB, Tx, receipt>>

\* Invoke, lines 140-150: the head of the loop, step limit and halt tests.
LoopHead ==
    /\ Running
    /\ top.pc = "loop"
    /\ IF PreExec /\ ~CheckExecStep(ExecStep).ok
       THEN /\ services' = SetTop(Fail(top, VM_EXEC_STEP_EXCEED))
            /\ ExecStep' = CheckExecStep(ExecStep).ExecStep
       ELSE /\ ExecStep' = IF PreExec THEN CheckExecStep(ExecStep).ExecStep ELSE ExecStep
            /\ IF ~top.active \/ top.ip >= Len(Code(top.Code))
               THEN services' = SetTop([top EXCEPT !.pc = "halt"])
               ELSE services' = SetTop([top EXCEPT !.pc = "exec"])
    /\ hist' = [hist EXCEPT !.halts =
                    IF services'[Len(services)].pc = "halt" THEN @ + 1 ELSE @]
    /\ UNCHANGED <<ontid, Contexts, Notifications, Gas, PreExec, CacheDB, Tx, receipt>>

\* Invoke, lines 151-153: ExecuteCode reads the opcode byte.
ExecuteCode ==
    /\ Running
    /\ top.pc = "exec"
    /\ LET cell == Code(top.Code)[top.ip + 1]
       IN  services' = SetTop([top EXCEPT
                !.OpCode = IF cell.k = "op" THEN cell.v ELSE INVALID_OP,
                !.ip = @ + 1,
                !.pc = "stack"])
    /\ hist' = [hist EXCEPT !.opcodes = @ + 1]
    /\ UNCHANGED <<ontid, Contexts, Notifications, Gas, ExecStep, PreExec, CacheDB, Tx,
                   receipt>>

\* A stack-size check that runs at every position of the code.
CheckStackAlways ==
    /\ Running
    /\ top.pc = "stack"
    /\ IF ~checkStackSize(top)
       THEN services' = SetTop(Fail(top, ERR_CHECK_STACK_SIZE))
       ELSE services' = SetTop([top EXCEPT !.pc = "gas"])
    /\ UNCHANGED <<ontid, Contexts, Notifications, Gas, ExecStep, PreExec, CacheDB, Tx,
                   receipt, hist>>

\* Invoke, lines 154-158: the stack-size check, skipped at the end of the code.
CheckStack ==
    /\ Running
    /\ top.pc = "stack"
    /\ IF top.ip < Len(Code(top.Code)) /\ ~checkStackSize(top)
       THEN services' = SetTop(Fail(top, ERR_CHECK_STACK_SIZE))
       ELSE services' = SetTop([top EXCEPT !.pc = "gas"])
    /\ UNCHANGED <<ontid, Contexts, Notifications, Gas, ExecStep, PreExec, CacheDB, Tx,
                   receipt, hist>>

\* The price Invoke charges for the fetched opcode, lines 159-174.
OpPrice(op) == IF IsPushBytes(op) THEN OPCODE_GAS ELSE GasPrice(OpName(op))

\* A charge whose failure does not stop the opcode.
ChargeGasNoAbort ==
    /\ Running
    /\ top.pc = "gas"
    /\ IF ~IsPushBytes(top.OpCode) /\ ~ValidateOp(top)
       THEN /\ services' = SetTop(Fail(top, <<"[ValidateOp] invalid opcode or parameters">>))
            /\ UNCHANGED Gas
       ELSE /\ services' = SetTop([top EXCEPT !.pc = "dispatch"])
            /\ Gas' = CheckUseGas(Gas, OpPrice(top.OpCode)).Gas
    /\ hist' = IF services'[Len(services)].pc = "dispatch"
               THEN [hist EXCEPT
                        !.charged = @ + OpPrice(top.OpCode),
                        !.deep = IF Len(services) >= 2 THEN @ + OpPrice(top.OpCode)
                                                       ELSE @]
               ELSE hist
    /\ UNCHANGED <<ontid, Contexts, Notifications, ExecStep, PreExec, CacheDB, Tx, receipt>>

\* A charge that nested activations make on a gas counter of their own.
ChargeGasOwn ==
    /\ Running
    /\ top.pc = "gas"
    /\ IF ~IsPushBytes(top.OpCode) /\ ~ValidateOp(top)
       THEN /\ services' = SetTop(Fail(top, <<"[ValidateOp] invalid opcode or parameters">>))
            /\ UNCHANGED Gas
       ELSE IF ~CheckUseGas(Gas, OpPrice(top.OpCode)).ok
       THEN /\ services' = SetTop(Fail(top, ERR_GAS_INSUFFICIENT))
            /\ Gas' = CheckUseGas(Gas, OpPrice(top.OpCode)).Gas
       ELSE /\ services' = SetTop([top EXCEPT !.pc = "dispatch"])
            /\ Gas' = IF Len(services) >= 2 THEN Gas
                      ELSE CheckUseGas(Gas, OpPrice(top.OpCode)).Gas
    /\ hist' = IF services'[Len(services)].pc = "dispatch"
               THEN [hist EXCEPT
                        !.charged = @ + OpPrice(top.OpCode),
                        !.deep = IF Len(services) >= 2 THEN @ + OpPrice(top.OpCode)
                                                       ELSE @]
               ELSE hist
    /\ UNCHANGED <<ontid, Contexts, Notifications, ExecStep, PreExec, CacheDB, Tx, receipt>>

\* Invoke, lines 159-174: ValidateOp and the gas charge of the opcode.
ChargeGas ==
    /\ Running
    /\ top.pc = "gas"
    /\ IF ~IsPushBytes(top.OpCode) /\ ~ValidateOp(top)
       THEN /\ services' = SetTop(Fail(top, <<"[ValidateOp] invalid opcode or parameters">>))
            /\ UNCHANGED Gas
       ELSE IF ~CheckUseGas(Gas, OpPrice(top.OpCode)).ok
       THEN /\ services' = SetTop(Fail(top, ERR_GAS_INSUFFICIENT))
            /\ Gas' = CheckUseGas(Gas, OpPrice(top.OpCode)).Gas
       ELSE /\ services' = SetTop([top EXCEPT !.pc = "dispatch"])
            /\ Gas' = CheckUseGas(Gas, OpPrice(top.OpCode)).Gas
    /\ hist' = IF services'[Len(services)].pc = "dispatch"
               THEN [hist EXCEPT
                        !.charged = @ + OpPrice(top.OpCode),
                        !.deep = IF Len(services) >= 2 THEN @ + OpPrice(top.OpCode)
                                                       ELSE @]
               ELSE hist
    /\ UNCHANGED <<ontid, Contexts, Notifications, ExecStep, PreExec, CacheDB, Tx, receipt>>

\* The notifications a service gained in one step.
NewOf(before, after) == SubSeq(after, Len(before) + 1, Len(after))

\* Invoke, lines 201-204, with SystemCall, lines 259-285.
OpSysCall ==
    /\ Running
    /\ top.pc = "dispatch"
    /\ top.OpCode = SYSCALL
    /\ LET r == SystemCall(top, Gas, Contexts, Tx, CacheDB)
       IN  /\ services' = SetTop(IF r.err # <<>>
                                  THEN Fail(r.f, NewDetailErr(r.err, ERR_SYSCALL))
                                  ELSE [r.f EXCEPT !.pc = "loop"])
           /\ Gas' = r.Gas
           /\ CacheDB' = r.CacheDB
           /\ hist' = [hist EXCEPT
                    !.emitted = @ \o
                        [i \in 1..Len(NewOf(top.Notifications, r.f.Notifications)) |->
                            [event |-> NewOf(top.Notifications, r.f.Notifications)[i],
                             path |-> hist.actIds]],
                    !.witness =
                        IF r.ran /\ r.err = <<>> /\
                           Code(top.Code)[top.ip + 1].v = RUNTIME_CHECKWITNESS_NAME
                        THEN Append(@, [address |-> Peek(top.eval, 0).v,
                                        result |-> Peek(r.f.eval, 0).v,
                                        contexts |-> Contexts])
                        ELSE @,
                    !.charged =
                        IF r.ran THEN @ + GasPrice(Code(top.Code)[top.ip + 1].v) ELSE @,
                    !.deep =
                        IF r.ran /\ Len(services) >= 2
                        THEN @ + GasPrice(Code(top.Code)[top.ip + 1].v) ELSE @]
    /\ UNCHANGED <<ontid, Contexts, Notifications, ExecStep, PreExec, Tx, receipt>>

\* Invoke, lines 206-221: the callee's address, read from the operand or,
\* when the operand is BYTE_ZERO_20, popped from the evaluation stack.
\* [f: the caller afterwards, address, err]
AppCallTarget(f) ==
    LET code == Code(f.Code)
        out(g, a, e) == [f |-> g, address |-> a, err |-> e]
    IN  IF f.ip >= Len(code)
        THEN out(f, "", <<"[Appcall] read contract address error">>)
        ELSE
        LET address == code[f.ip + 1].v
            g == [f EXCEPT !.ip = @ + 1]
        IN  IF address # BYTE_ZERO_20
            THEN out(g, address, <<>>)
            ELSE IF Count(g.eval) < 1
            THEN out(g, "", <<"[Appcall] too few input parameters">>)
            ELSE
            LET item == Peek(g.eval, 0)
                h == [g EXCEPT !.eval = Pop(@)]
            IN  IF ByteArrayLen(item) < 0
                THEN out(h, "", <<"[Appcall] pop contract address error">>)
                ELSE IF ByteArrayLen(item) # ADDR_LEN
                THEN out(h, "", <<"[Appcall] pop contract address len != 20">>)
                ELSE out(h, item.v, <<>>)

\* Invoke, lines 205-234, up to the callee's Invoke: the target, getContract,
\* NewExecuteEngine and the copy of the evaluation stack.
\* [f: the caller afterwards, err, callee: the new service]
AppCallPrepare(f, ctxs) ==
    LET t == AppCallTarget(f)
        out(e, callee) == [f |-> t.f, err |-> e, callee |-> callee]
    IN  IF t.err # <<>>
        THEN out(t.err, NewService(""))
        ELSE IF ~getContract(t.address).ok
        THEN out(CONTRACT_NOT_EXIST, NewService(""))
        ELSE IF ~checkContexts(ctxs)
        THEN out(ERR_ENGINE_LIMIT, NewService(""))
        ELSE out(<<>>, [NewService(getContract(t.address).code) EXCEPT
                            !.eval = CopyTo(t.f.eval, @)])

\* Invoke, lines 205-235: resolve the callee, create its service with a copy
\* of the caller's evaluation stack, and enter its Invoke.
OpAppCall ==
    /\ Running
    /\ top.pc = "dispatch"
    /\ top.OpCode = APPCALL
    /\ LET r == AppCallPrepare(top, Contexts)
       IN  IF r.err # <<>>
           THEN /\ services' = SetTop(Fail(r.f, r.err))
                /\ UNCHANGED hist
           ELSE /\ services' = Append(SetTop([r.f EXCEPT !.pc = "call"]), r.callee)
                /\ hist' = [hist EXCEPT !.nacts = @ + 1,
                                         !.actIds = Append(@, hist.nacts + 1),
                                         !.atCall = Append(@, Contexts)]
    /\ UNCHANGED <<ontid, Contexts, Notifications, Gas, ExecStep, PreExec, CacheDB, Tx,
                   receipt>>

\* keypair.DeserializePublicKey: the bytes are a well-formed public key.
DeserializePublicKey(item) == item.t = "bytes" /\ item.v \in {"PK"}

\* signature.Verify(key, data, sig): sig is key's signature of data.
SignatureVerify(key, data, sig) ==
    /\ key.v = "PK"
    /\ data.t = "bytes"
    /\ sig.t = "bytes"
    /\ sig.v = "sig" \o key.v \o data.v

ERR_VERIFY_PARAMS == <<"[VERIFY] too few input parameters">>

ERR_POP_BYTEARRAY == <<"item has no byte array form">>

ERR_PUBLIC_KEY == <<"deserializing public key failed">>

\* A VERIFY that returns an error when the signature does not verify.
VerifyOpStrict(f) ==
    IF Count(f.eval) < 3
    THEN Fail(f, ERR_VERIFY_PARAMS)
    ELSE LET pubKey == Peek(f.eval, 0)
             sig == Peek(f.eval, 1)
             data == Peek(f.eval, 2)
         IN  IF ByteArrayLen(pubKey) < 0
             THEN Fail(f, ERR_POP_BYTEARRAY)
             ELSE IF ~DeserializePublicKey(pubKey)
             THEN Fail([f EXCEPT !.eval = Pop(@)], ERR_PUBLIC_KEY)
             ELSE IF ByteArrayLen(sig) < 0
             THEN Fail([f EXCEPT !.eval = Pop(@)], ERR_POP_BYTEARRAY)
             ELSE IF ByteArrayLen(data) < 0
             THEN Fail([f EXCEPT !.eval = PopN(@, 2)], ERR_POP_BYTEARRAY)
             ELSE IF ~SignatureVerify(pubKey, data, sig)
             THEN Fail([f EXCEPT !.eval = PopN(@, 3)], <<"signature verify failed">>)
             ELSE [f EXCEPT !.eval = Push(PopN(@, 3), Boolean(TRUE)), !.pc = "loop"]

\* Invoke, lines 176-200, case vm.VERIFY: the service after the opcode.
VerifyOp(f) ==
    IF Count(f.eval) < 3
    THEN Fail(f, ERR_VERIFY_PARAMS)
    ELSE LET pubKey == Peek(f.eval, 0)
             sig == Peek(f.eval, 1)
             data == Peek(f.eval, 2)
         IN  IF ByteArrayLen(pubKey) < 0
             THEN Fail(f, ERR_POP_BYTEARRAY)
             ELSE IF ~DeserializePublicKey(pubKey)
             THEN Fail([f EXCEPT !.eval = Pop(@)], ERR_PUBLIC_KEY)
             ELSE IF ByteArrayLen(sig) < 0
             THEN Fail([f EXCEPT !.eval = Pop(@)], ERR_POP_BYTEARRAY)
             ELSE IF ByteArrayLen(data) < 0
             THEN Fail([f EXCEPT !.eval = PopN(@, 2)], ERR_POP_BYTEARRAY)
             ELSE [f EXCEPT !.eval = Push(PopN(@, 3),
                                          Boolean(SignatureVerify(pubKey, data, sig))),
                            !.pc = "loop"]

\* Invoke, lines 176-200: VERIFY is handled by the service itself.
OpVerify ==
    /\ Running
    /\ top.pc = "dispatch"
    /\ top.OpCode = VERIFY
    /\ services' = SetTop(VerifyOp(top))
    /\ UNCHANGED <<ontid, Contexts, Notifications, Gas, ExecStep, PreExec, CacheDB, Tx,
                   receipt, hist>>

\* Invoke, lines 242-248: every other opcode is left to the engine.
OpDefault ==
    /\ Running
    /\ top.pc = "dispatch"
    /\ top.OpCode \notin {VERIFY, SYSCALL, APPCALL}
    /\ LET r == StepInto(top)
       IN  IF r.err # <<>>
           THEN services' = SetTop(Fail(r.f, NewDetailErr(r.err,
                                    "[NeoVmService] vm execution error!")))
           ELSE IF r.fault
           THEN services' = SetTop(Fail(r.f, VM_EXEC_FAULT))
           ELSE services' = SetTop([r.f EXCEPT !.pc = "loop"])
    /\ UNCHANGED <<ontid, Contexts, Notifications, Gas, ExecStep, PreExec, CacheDB, Tx,
                   receipt, hist>>

\* An Invoke that takes its result off the evaluation stack.
InvokeHaltPop ==
    /\ Running
    /\ top.pc = "halt"
    /\ Contexts' = PopContext(Contexts)
    /\ Notifications' = PushNotifications(Notifications, top.Notifications)
    /\ services' = SetTop([top EXCEPT
            !.pc = "returned",
            !.result = IF Count(top.eval) # 0 THEN Peek(top.eval, 0) ELSE Nil,
            !.eval = IF Count(top.eval) # 0 THEN Pop(@) ELSE @])
    /\ UNCHANGED <<ontid, Gas, ExecStep, PreExec, CacheDB, Tx, receipt, hist>>

\* Invoke, lines 251-256: after the loop, pop the context, hand the service's
\* notifications to the SmartContract and return the top of the stack.
InvokeHalt ==
    /\ Running
    /\ top.pc = "halt"
    /\ Contexts' = PopContext(Contexts)
    /\ Notifications' = PushNotifications(Notifications, top.Notifications)
    /\ services' = SetTop([top EXCEPT
            !.pc = "returned",
            !.result = IF Count(top.eval) # 0 THEN Peek(top.eval, 0) ELSE Nil])
    /\ UNCHANGED <<ontid, Gas, ExecStep, PreExec, CacheDB, Tx, receipt, hist>>

\* Invoke, lines 235-241, in the caller: the callee returned a result.
AppCallReturn ==
    /\ Running
    /\ Len(services) >= 2
    /\ top.pc = "returned"
    /\ LET caller == services[Len(services) - 1]
       IN  services' =
               [Pop(services) EXCEPT ![Len(services) - 1] =
                   [caller EXCEPT
                       !.eval = IF top.result # Nil THEN Push(@, top.result) ELSE @,
                       !.pc = "loop"]]
    /\ hist' = [hist EXCEPT !.actIds = Pop(@), !.atCall = Pop(@)]
    /\ UNCHANGED <<ontid, Contexts, Notifications, Gas, ExecStep, PreExec, CacheDB, Tx,
                   receipt>>

\* A caller that drops the callee's error and goes on with its loop.
AppCallSwallow ==
    /\ Running
    /\ Len(services) >= 2
    /\ top.pc = "error"
    /\ services' = [Pop(services) EXCEPT ![Len(services) - 1].pc = "loop"]
    /\ hist' = [hist EXCEPT !.actIds = Pop(@), !.atCall = Pop(@)]
    /\ UNCHANGED <<ontid, Contexts, Notifications, Gas, ExecStep, PreExec, CacheDB, Tx,
                   receipt>>

\* A caller that removes the failed callee's context before it returns the
\* error.
AppCallFailPop ==
    /\ Running
    /\ Len(services) >= 2
    /\ top.pc = "error"
    /\ LET caller == services[Len(services) - 1]
       IN  services' =
               [Pop(services) EXCEPT ![Len(services) - 1] = Fail(caller, top.err)]
    /\ Contexts' = PopContext(Contexts)
    /\ hist' = [hist EXCEPT !.actIds = Pop(@), !.atCall = Pop(@)]
    /\ UNCHANGED <<ontid, Notifications, Gas, ExecStep, PreExec, CacheDB, Tx,
                   receipt>>

\* Invoke, lines 235-238, in the caller: the callee returned an error.
AppCallFail ==
    /\ Running
    /\ Len(services) >= 2
    /\ top.pc = "error"
    /\ LET caller == services[Len(services) - 1]
       IN  services' =
               [Pop(services) EXCEPT ![Len(services) - 1] = Fail(caller, top.err)]
    /\ hist' = [hist EXCEPT !.actIds = Pop(@), !.atCall = Pop(@)]
    /\ UNCHANGED <<ontid, Contexts, Notifications, Gas, ExecStep, PreExec, CacheDB, Tx,
                   receipt>>

\* A caller that hands on the notification buffer and the overlay whether or
\* not Invoke returned an error.
ReceiptKeepAll(f, notifications, cache, consumed) ==
    [state |-> IF f.pc = "returned" THEN "HALT" ELSE "FAIL",
     result |-> f.result, notifications |-> notifications, delta |-> cache,
     gas_consumed |-> consumed]

\* What the entry API `execute` hands to its caller once the outermost Invoke
\* f has returned: on HALT the result, the gas consumed, the notifications and
\* the state delta; on FAIL the overlay and the notification buffer are
\* discarded.
Receipt(f, notifications, cache, consumed) ==
    IF f.pc = "returned"
    THEN [state |-> "HALT", result |-> f.result, notifications |-> notifications,
          delta |-> cache, gas_consumed |-> consumed]
    ELSE [state |-> "FAIL", result |-> Nil, notifications |-> <<>>, delta |-> {},
          gas_consumed |-> consumed]

\* The transaction's caller, after the outermost Invoke has returned.
Execute ==
    /\ Running
    /\ Len(services) = 1
    /\ top.pc \in {"returned", "error"}
    /\ receipt' = Receipt(top, Notifications, CacheDB, hist.InitGas - Gas)
    /\ UNCHANGED <<ontid, Contexts, Notifications, Gas, ExecStep, PreExec, CacheDB, Tx,
                   services, hist>>

Next ==
    \/ InvokeStart
    \/ LoopHead
    \/ ExecuteCode
    \/ CheckStack
    \/ ChargeGas
    \/ OpSysCall
    \/ OpAppCall
    \/ OpVerify
    \/ OpDefault
    \/ InvokeHalt
    \/ AppCallReturn
    \/ AppCallFail
    \/ Execute

Spec == Init /\ [][Next]_vars

(***************************************************************************)
(* The ontid helpers, called on their own.                                 *)
(***************************************************************************)
\* The ids passed to encodeID: every length from 0 to MaxIdLen, of one
\* repeated byte or of bytes that differ.
Ids ==
    {[i \in 1..n |-> b] : n \in 0..MaxIdLen, b \in {0, 7}}
        \cup {[i \in 1..n |-> ToByte(i)] : n \in 0..MaxIdLen}

\* A 20-byte prefix that is not the contract address.
OtherAddress == [i \in 1..ADDR_LEN |-> 9]

\* The byte strings passed to decodeID: what encodeID returned for an id,
\* strings of zeros of every length around the prefix length, and the
\* contract address or another prefix, alone or followed by a length byte
\* and an id that has, or has not, that length.
Datas ==
    {[i \in 1..n |-> 0] : n \in 0..(ADDR_LEN + 3)}
        \cup {OntIDContractAddress, OtherAddress}
        \cup {p \o <<k>> \o tail :
                 p \in {OntIDContractAddress, OtherAddress},
                 k \in {0, 1, 2, MAX_ID_LEN},
                 tail \in {<<>>, <<7>>, <<7, 8>>, <<7, 8, 9>>}}

\* The calls of the helpers: encodeID(id), decodeID(data), and decodeID of
\* what encodeID returned for an id (orig).
OntIdCalls ==
    {[fn |-> "encodeID", data |-> id, addr |-> OntIDContractAddress,
      ret |-> <<>>, err |-> "", panic |-> FALSE, orig |-> <<>>, pc |-> "call"] :
        id \in Ids}
    \cup
    {[fn |-> "decodeID", data |-> data, addr |-> OntIDContractAddress,
      ret |-> <<>>, err |-> "", panic |-> FALSE, orig |-> <<>>, pc |-> "call"] :
        data \in Datas}
    \cup
    {[fn |-> "decodeID", data |-> encodeID(id).ret, addr |-> OntIDContractAddress,
      ret |-> <<>>, err |-> "", panic |-> FALSE, orig |-> id, pc |-> "call"] :
        id \in {x \in Ids : encodeID(x).err = ""}}

InitOntId ==
    /\ Contexts = <<>>
    /\ Notifications = <<>>
    /\ Gas = 0
    /\ ExecStep = 0
    /\ PreExec = FALSE
    /\ CacheDB = {}
    /\ Tx = [addresses |-> <<>>, err |-> FALSE]
    /\ services = <<NewService("E")>>
    /\ receipt = NoReceipt
    /\ hist = [emitted |-> <<>>, InitGas |-> 0, opcodes |-> 0, halts |-> 0,
               actIds |-> <<1>>, nacts |-> 1, atCall |-> << <<>> >>,
               witness |-> <<>>, charged |-> 0, deep |-> 0]
    /\ ontid \in OntIdCalls

\* A call of encodeID(id) returns.
EncodeID ==
    /\ ontid.pc = "call"
    /\ ontid.fn = "encodeID"
    /\ ontid' = [ontid EXCEPT !.ret = encodeID(ontid.data).ret,
                              !.err = encodeID(ontid.data).err,
                              !.pc = "done"]
    /\ UNCHANGED <<Contexts, Notifications, Gas, ExecStep, PreExec, CacheDB, Tx,
                   services, receipt, hist>>

\* A call of decodeID(data) returns, or panics.
DecodeID ==
    /\ ontid.pc = "call"
    /\ ontid.fn = "decodeID"
    /\ ontid' = [ontid EXCEPT !.ret = decodeID(ontid.data).ret,
                              !.err = decodeID(ontid.data).err,
                              !.panic = decodeID(ontid.data).panic,
                              !.pc = "done"]
    /\ UNCHANGED <<Contexts, Notifications, Gas, ExecStep, PreExec, CacheDB, Tx,
                   services, receipt, hist>>

NextOntId ==
    \/ EncodeID
    \/ DecodeID

OntIdSpec == InitOntId /\ [][NextOntId]_vars

\* Invoke and its caller run to completion: nothing preempts the loop.
FairSpec == Spec /\ WF_vars(Next)

(***************************************************************************)
(* Properties.                                                             *)
(***************************************************************************)
\* The outermost Invoke has returned without an error.
Halted == Len(services) = 1 /\ top.pc = "returned"

\* The outermost Invoke has returned an error.
Failed == Len(services) = 1 /\ top.pc = "error"

\* The notifications in the order in which Runtime.Notify emitted them.
EmittedEvents == [i \in 1..Len(hist.emitted) |-> hist.emitted[i].event]

\* Activation path p belongs to a caller (direct or indirect) of path q.
IsCallerOf(p, q) == Len(p) < Len(q) /\ SubSeq(q, 1, Len(p)) = p

\* Emitted notification i stands before emitted notification j in the final
\* list: emission order, except that a callee's notifications come before all
\* those of its callers.
StandsBefore(i, j) ==
    \/ i < j /\ ~IsCallerOf(hist.emitted[i].path, hist.emitted[j].path)
    \/ j < i /\ IsCallerOf(hist.emitted[j].path, hist.emitted[i].path)

FinalPosition(i) ==
    1 + Cardinality({j \in 1..Len(hist.emitted) : j # i /\ StandsBefore(j, i)})

Addresses == Deployed \cup (DOMAIN Programs) \cup {"U", "X"}

\* The signing-address set of the transaction.
Signers(tx) == {tx.addresses[i] : i \in 1..Len(tx.addresses)}

\* The answer the claim gives for address addr under context stack ctxs.
WitnessRule(tx, ctxs, addr) ==
    \/ addr \in Signers(tx)
    \/ Len(ctxs) >= 2 /\ ctxs[Len(ctxs) - 1].ContractAddress = addr

\* C3: CheckWitness(addr) is true iff addr is a signing address of the
\* transaction or the contract address of the calling context (the second
\* from the top of the context stack); with fewer than two contexts only the
\* signers count.  Checked for every address in every reachable state, and
\* for every answer Runtime.CheckWitness has pushed.
C3_WitnessSymmetry ==
    /\ \A addr \in Addresses :
           CheckWitness(Tx, Contexts, addr) <=> WitnessRule(Tx, Contexts, addr)
    /\ \A i \in 1..Len(hist.witness) :
           hist.witness[i].result <=>
               WitnessRule(Tx, hist.witness[i].contexts, hist.witness[i].address)

\* Runtime.CheckWitness answered true for the calling contract, which is no
\* signer, and false for an address that is neither.
C3_Witness ==
    /\ \E i \in 1..Len(hist.witness) :
           /\ hist.witness[i].result
           /\ hist.witness[i].address \notin Signers(Tx)
    /\ \E i \in 1..Len(hist.witness) :
           /\ ~hist.witness[i].result
           /\ Len(hist.witness[i].contexts) < 2

\* Service i is between the push of its context and the end of its loop.
Executing(i) ==
    services[i].pc \in {"loop", "exec", "stack", "gas", "dispatch", "call", "halt"}

\* C4: while the code of B, called by A through APPCALL (A and B distinct,
\* neither a signer), is executing, CheckWitness(A) is true and
\* CheckWitness(B) is false; and when B has returned successfully the calling
\* context is what it was before the APPCALL.
C4_CallerWitness ==
    /\ (/\ Len(services) >= 2
        /\ Executing(Len(services))
        /\ services[Len(services) - 1].Code # top.Code
        /\ services[Len(services) - 1].Code \notin Signers(Tx)
        /\ top.Code \notin Signers(Tx))
       => /\ CheckWitness(Tx, Contexts, services[Len(services) - 1].Code)
          /\ ~CheckWitness(Tx, Contexts, top.Code)
    /\ (Len(services) >= 2 /\ top.pc = "returned")
       => CallingContext(Contexts) = CallingContext(hist.atCall[Len(services)])

\* Inside W, called by K, Runtime.CheckWitness answered true for K and false
\* for W, and W has returned to K.
C4_Witness ==
    /\ Len(services) >= 2
    /\ top.pc = "returned"
    /\ top.Code = "W"
    /\ services[Len(services) - 1].Code = "K"
    /\ {"K", "W"} \cap Signers(Tx) = {}
    /\ \E i, j \in 1..Len(hist.witness) :
           /\ hist.witness[i].address = "K" /\ hist.witness[i].result
           /\ hist.witness[j].address = "W" /\ ~hist.witness[j].result

\* C5 as claimed: the context-stack depth never exceeds MAX_EXECUTE_ENGINE;
\* a push that would exceed it fails instead.
C5_ContextBound == Len(Contexts) <= MAX_EXECUTE_ENGINE

\* C6 as claimed: the items on the evaluation stack plus the alt stack of an
\* engine driven by Invoke never exceed DUPLICATE_STACK_SIZE.
C6_StackBound ==
    \A i \in 1..Len(services) :
        Count(services[i].eval) + Count(services[i].alt) <= DUPLICATE_STACK_SIZE

\* C7: the remaining gas never increases and never passes below zero, so the
\* gas consumed is non-decreasing and at most the initial gas; a failing
\* execution keeps what it has charged.
C7_GasMonotonic ==
    /\ [](Gas >= 0 /\ Gas <= hist.InitGas)
    /\ [][Gas' <= Gas]_vars

\* The execution failed for want of gas after it had charged some, with gas
\* left that the refused charge exceeded.
C7_Witness ==
    /\ Failed
    /\ ~Running
    /\ top.err = ERR_GAS_INSUFFICIENT
    /\ 0 < Gas
    /\ Gas < hist.InitGas
    /\ receipt.gas_consumed = hist.InitGas - Gas

\* C8 as claimed: in PreExec mode at most VM_STEP_LIMIT opcodes are executed,
\* and a program that executes no more opcodes than the limit is not failed
\* by the step limit: in particular an entry script that has run to its end
\* within the limit completes.
C8_StepLimitAsClaimed ==
    /\ [](PreExec => hist.opcodes <= VM_STEP_LIMIT)
    /\ [][(/\ PreExec /\ Running /\ Len(services) = 1 /\ top.pc = "loop"
            /\ top.ip >= Len(Code(top.Code))
            /\ hist.opcodes <= VM_STEP_LIMIT)
           => services'[1].pc # "error"]_vars

\* What the loop counts in PreExec mode: its iterations, which are the
\* opcodes executed plus one halt test for every invocation that ran to its
\* end.
StepsCounted ==
    hist.opcodes + hist.halts + (IF top.pc = "exec" THEN 1 ELSE 0)

StepLimitError == top.pc = "error" /\ top.err = VM_EXEC_STEP_EXCEED

\* C8, amended: in PreExec mode every execution terminates; ExecStep counts
\* the loop iterations of all nested invocations (opcodes executed plus one
\* halt test per completed invocation) and never exceeds VM_STEP_LIMIT, so at
\* most VM_STEP_LIMIT opcodes are executed; the step-limit error is returned
\* only when an iteration starts with the count at the limit, and never
\* outside PreExec mode.
C8_StepAccounting ==
    /\ [](PreExec => /\ ExecStep = StepsCounted
                      /\ ExecStep <= VM_STEP_LIMIT
                      /\ hist.opcodes <= VM_STEP_LIMIT)
    /\ [](StepLimitError => PreExec /\ ExecStep = VM_STEP_LIMIT)
    /\ [][(/\ PreExec /\ Running /\ top.pc = "loop" /\ ExecStep = VM_STEP_LIMIT)
           => /\ services'[Len(services)].pc = "error"
              /\ services'[Len(services)].err = VM_EXEC_STEP_EXCEED]_vars
    /\ (PreExec ~> ~Running)

\* An entry script that executed fewer opcodes than the limit and had run to
\* its end was failed by the step limit.
C8_Witness ==
    /\ PreExec
    /\ Failed
    /\ top.err = VM_EXEC_STEP_EXCEED
    /\ top.ip >= Len(Code(top.Code))
    /\ hist.opcodes < VM_STEP_LIMIT
    /\ hist.halts > 0

\* The running service is about to dispatch a SYSCALL whose name it can read.
SysStep ==
    /\ Running
    /\ top.pc = "dispatch"
    /\ top.OpCode = SYSCALL
    /\ top.ip < Len(Code(top.Code))

SysName == Code(top.Code)[top.ip + 1].v

ValidatorPasses ==
    ServiceMap[SysName].Validator = "nil" \/ Validator(SysName, top)

\* The step left stacks, notifications and storage as they were.
SysUntouched ==
    /\ services'[Len(services)].eval = top.eval
    /\ services'[Len(services)].alt = top.alt
    /\ services'[Len(services)].Notifications = top.Notifications
    /\ Notifications' = Notifications
    /\ CacheDB' = CacheDB

\* C9: SYSCALL looks the name up, runs the validator, prices and charges,
\* and only then runs the effect: an unknown name, a failing validator or a
\* price above the remaining gas each fail the call with no service gas
\* charged and no effect; an effect is seen only after all three succeeded
\* and the price was charged.
C9_SysCallOrder ==
    [][SysStep =>
        /\ SysName \notin DOMAIN ServiceMap =>
               /\ SysUntouched /\ Gas' = Gas
               /\ services'[Len(services)].pc = "error"
               /\ services'[Len(services)].err = NewDetailErr(ERR_NOT_SUPPORTED, ERR_SYSCALL)
        /\ (SysName \in DOMAIN ServiceMap /\ ~ValidatorPasses) =>
               /\ SysUntouched /\ Gas' = Gas
               /\ services'[Len(services)].pc = "error"
               /\ services'[Len(services)].err[2] = ERR_VALIDATOR
        /\ (SysName \in DOMAIN ServiceMap /\ ValidatorPasses /\ Gas < GasPrice(SysName)) =>
               /\ SysUntouched /\ Gas' = Gas
               /\ services'[Len(services)].pc = "error"
               /\ services'[Len(services)].err = NewDetailErr(ERR_GAS_INSUFFICIENT, ERR_SYSCALL)
        /\ (~SysUntouched \/ Gas' # Gas) =>
               /\ SysName \in DOMAIN ServiceMap
               /\ ValidatorPasses
               /\ Gas >= GasPrice(SysName)
               /\ Gas' = Gas - GasPrice(SysName)
    ]_vars

\* A SYSCALL whose service is registered and whose validator passes failed
\* because the remaining gas, though not zero, was below the service's price.
C9_Witness ==
    /\ top.pc = "error"
    /\ top.OpCode = SYSCALL
    /\ top.err = NewDetailErr(ERR_GAS_INSUFFICIENT, ERR_SYSCALL)
    /\ Gas > 0
    /\ Count(top.eval) >= 1

\* C10: APPCALL takes its target from the operand, or pops it from the
\* evaluation stack when the operand is all zero; the callee starts with a
\* copy of the caller's evaluation stack (after that pop); nothing the callee
\* does changes the stack of a caller; and when the callee returns, exactly
\* the top of its stack, if it has one, is pushed on the caller's stack.
C10_AppCallStack ==
    [][/\ (/\ Running /\ top.pc = "dispatch" /\ top.OpCode = APPCALL
            /\ Len(services') = Len(services) + 1)
           => LET operand == Code(top.Code)[top.ip + 1].v
                  caller == services'[Len(services)]
                  callee == services'[Len(services) + 1]
              IN  /\ callee.Code = IF operand # BYTE_ZERO_20 THEN operand
                                     ELSE Peek(top.eval, 0).v
                  /\ caller.eval = IF operand # BYTE_ZERO_20 THEN top.eval
                                     ELSE Pop(top.eval)
                  /\ callee.eval = caller.eval
       /\ \A i \in 1..(Len(services) - 1) :
              i < Len(services') => services'[i].eval = services[i].eval
       /\ (/\ Len(services) >= 2 /\ top.pc = "returned"
            /\ Len(services') = Len(services) - 1)
           => services'[Len(services) - 1].eval =
                  IF Count(top.eval) # 0
                  THEN Push(services[Len(services) - 1].eval, Peek(top.eval, 0))
                  ELSE services[Len(services) - 1].eval
    ]_vars

\* The script that pushes 1 and B's address and calls the address on the
\* stack has B's result, the copied 1, on its stack above its own 1.
C10_Witness ==
    /\ Len(services) = 1
    /\ top.Code = "T3"
    /\ top.pc = "loop"
    /\ top.eval = <<Integer(1), Integer(1)>>
    /\ Notifications = <<[ContractAddress |-> "B", States |-> ByteArray("b1", 1)]>>

\* C11: once an Invoke at any depth has returned an error, each step hands
\* the error one frame outwards: the running frame is again a failed one, no
\* opcode is executed, no gas is charged and no notifications are pushed; and
\* the outermost Invoke returns an error, so the transaction ends in FAIL.
C11_FailurePropagation ==
    /\ [][(Running /\ top.pc = "error") =>
            /\ Len(services') <= Len(services)
            /\ services'[Len(services')].pc = "error"
            /\ services'[Len(services')].err = top.err
            /\ \A i \in 1..Len(services') :
                   /\ services'[i].ip = services[i].ip
                   /\ services'[i].eval = services[i].eval
                   /\ services'[i].Notifications = services[i].Notifications
            /\ hist'.opcodes = hist.opcodes
            /\ Gas' = Gas
            /\ ExecStep' = ExecStep
            /\ Notifications' = Notifications
            /\ CacheDB' = CacheDB]_vars
    /\ ((top.pc = "error") ~> (receipt.state = "FAIL"))

\* A SYSCALL three frames deep (in W, called by K, called by the script)
\* failed for want of gas and the transaction ended in FAIL with that error.
C11_Witness ==
    /\ receipt.state = "FAIL"
    /\ top.Code = "T1"
    /\ top.err = NewDetailErr(ERR_GAS_INSUFFICIENT, ERR_SYSCALL)
    /\ Gas > 0
    /\ hist.witness = <<>>

\* The engine has no active frame, or the current frame's instruction pointer
\* is at or past the end of its code.
AtEnd(f) == ~f.active \/ f.ip >= Len(Code(f.Code))

VerifyStep == Running /\ top.pc = "dispatch" /\ top.OpCode = VERIFY

\* The item on top of the stack, where VERIFY takes the public key, has
\* bytes that are no well-formed public key.
MalformedPubKey ==
    /\ Count(top.eval) >= 1
    /\ ByteArrayLen(Peek(top.eval, 0)) >= 0
    /\ ~DeserializePublicKey(Peek(top.eval, 0))

\* C13 as claimed: VERIFY pops three items and pushes one Boolean, false for
\* a signature that does not verify, and aborts only for a malformed pubkey.
C13_VerifyAsClaimed ==
    [][VerifyStep =>
        /\ services'[Len(services)].pc = "error" => MalformedPubKey
        /\ services'[Len(services)].pc # "error" =>
               Count(services'[Len(services)].eval) = Count(top.eval) - 2
    ]_vars

\* C13, amended: VERIFY returns an error when the stack holds fewer than
\* three items, when one of the three has no byte-array form, or when the
\* pubkey bytes are malformed; otherwise it pops data, sig and pubkey and
\* pushes one Boolean, true exactly when the signature verifies, and the
\* execution goes on: a bad signature never aborts.
C13_Verify ==
    [][VerifyStep =>
        /\ services'[Len(services)].pc = "error" <=>
               \/ Count(top.eval) < 3
               \/ \E i \in 0..2 : ByteArrayLen(Peek(top.eval, i)) < 0
               \/ MalformedPubKey
        /\ services'[Len(services)].pc # "error" =>
               /\ services'[Len(services)].pc = "loop"
               /\ services'[Len(services)].eval =
                      Push(PopN(top.eval, 3),
                           Boolean(SignatureVerify(Peek(top.eval, 0),
                                                   Peek(top.eval, 2),
                                                   Peek(top.eval, 1))))
               /\ Count(services'[Len(services)].eval) = Count(top.eval) - 2
        /\ Gas' = Gas
    ]_vars

\* The script whose second signature does not verify has run to its end with
\* false on its stack, after true for the first one.
C13_Witness ==
    /\ Halted
    /\ top.Code = "V1"
    /\ top.eval = <<Boolean(FALSE)>>

\* C14: encodeID(id) returns OntIDContractAddress, one byte holding len(id)
\* and id, for every id of 1 to 255 bytes, and an error for an empty id and
\* for an id of more than 255 bytes; the contract address and the caller's id
\* are as they were.
C14_EncodeID ==
    (ontid.fn = "encodeID" /\ ontid.pc = "done") =>
        /\ ontid.addr = OntIDContractAddress
        /\ IF Len(ontid.data) \in 1..MAX_ID_LEN
           THEN /\ ontid.err = ""
                /\ Len(ontid.ret) = ADDR_LEN + 1 + Len(ontid.data)
                /\ SubSeq(ontid.ret, 1, ADDR_LEN) = OntIDContractAddress
                /\ ontid.ret[ADDR_LEN + 1] = Len(ontid.data)
                /\ SubSeq(ontid.ret, ADDR_LEN + 2, Len(ontid.ret)) = ontid.data
           ELSE ontid.err = ERR_ENCODE_ID /\ ontid.ret = <<>>

\* encodeID has returned the encoding of an id of the greatest length.
C14_Witness ==
    /\ ontid.fn = "encodeID"
    /\ ontid.pc = "done"
    /\ Len(ontid.data) = MAX_ID_LEN
    /\ ontid.err = ""
    /\ ontid.ret[ADDR_LEN + 1] = MAX_ID_LEN
    /\ ontid.ret[Len(ontid.ret)] = MAX_ID_LEN

\* The running service has fetched an opcode and stands before the
\* stack-size check of lines 154-158.
StackStep == Running /\ top.pc = "stack"

\* C15 as claimed: at every position of the code, the last one included,
\* checkStackSize is evaluated for the fetched opcode before its effect is
\* dispatched, so an opcode for which it answers false is never dispatched.
C15_CheckedEverywhere ==
    [][(StackStep /\ ~checkStackSize(top)) =>
           services'[Len(services)].pc = "error"]_vars

\* C15, amended: checkStackSize is evaluated after the fetch and before the
\* gas charge and the dispatch of every opcode but one whose fetch left the
\* instruction pointer at the end of the code (the last opcode of the code,
\* having no operand), which is charged and dispatched unchecked; the stacks
\* change only at the dispatch, which only the check and the charge lead to.
C15_StackCheckOrder ==
    [][/\ StackStep =>
            /\ services'[Len(services)].pc = "error" <=>
                   (top.ip < Len(Code(top.Code)) /\ ~checkStackSize(top))
            /\ services'[Len(services)].pc = "error" =>
                   services'[Len(services)].err = ERR_CHECK_STACK_SIZE
            /\ services'[Len(services)].pc # "error" =>
                   services'[Len(services)] = [top EXCEPT !.pc = "gas"]
       /\ (Running /\ Len(services') = Len(services)) =>
            /\ (services'[Len(services)].pc = "gas" /\ top.pc # "gas") =>
                   top.pc = "stack"
            /\ (services'[Len(services)].pc = "dispatch" /\ top.pc # "dispatch") =>
                   top.pc = "gas"
            /\ (services'[Len(services)].pc = "stack" /\ top.pc # "stack") =>
                   top.pc = "exec"
            /\ (services'[Len(services)].eval # top.eval
                    \/ services'[Len(services)].alt # top.alt) =>
                   top.pc = "dispatch"
    ]_vars

\* The script of pushes has run to its end with one item more than the
\* limit: its last push was dispatched unchecked.
C15_Witness ==
    /\ Halted
    /\ top.Code = "T19"
    /\ Count(top.eval) = DUPLICATE_STACK_SIZE + 1

\* The growth of the stacks the fetched opcode brings: the element count of
\* the array on top for UNPACK, 1 for the push opcodes PUSH0..PUSH16 and for
\* DEPTH, DUP, OVER and TUCK, 0 for the others.
StackGrowth(f) ==
    CASE f.OpCode = UNPACK /\ Count(f.eval) > 0
             /\ Peek(f.eval, 0).t \in {"array", "struct"} -> Len(Peek(f.eval, 0).v)
      [] f.OpCode \in PUSH0..PUSH16 -> 1
      [] f.OpCode \in {DEPTH, DUP, OVER, TUCK} -> 1
      [] OTHER -> 0

\* C16 as claimed: checkStackSize answers false exactly when the items on
\* the evaluation and alt stacks plus the growth of the fetched opcode exceed
\* DUPLICATE_STACK_SIZE.
C16_PredictedGrowth ==
    StackStep =>
        (checkStackSize(top) <=>
            Count(top.eval) + Count(top.alt) + StackGrowth(top) <= DUPLICATE_STACK_SIZE)

\* The running service stands before the gas charge of the fetched opcode.
GasStep == Running /\ top.pc = "gas"

\* The price of the fetched opcode: OPCODE_GAS for PUSHBYTES1..PUSHBYTES75,
\* the gas schedule's price of the opcode's name for the others.
PriceOf(op) ==
    IF op \in PUSHBYTES1..PUSHBYTES75
    THEN OPCODE_GAS
    ELSE CASE op = APPCALL -> GasPrice("APPCALL")
           [] op = SYSCALL -> GasPrice("SYSCALL")
           [] op = VERIFY -> GasPrice("VERIFY")
           [] OTHER -> GasPrice("OPCODE")

\* C17: a step of the driver is, in this order, step-limit and halt checks,
\* fetch, stack-size check, gas charge, dispatch; push-bytes opcodes are
\* charged OPCODE_GAS and the others the schedule's price; when the charge
\* fails Invoke returns the insufficient-gas error and the opcode has had no
\* effect: no stack change, no service run, no child engine, no context.
C17_StepOrder ==
    [][/\ (GasStep /\ (IsPushBytes(top.OpCode) \/ ValidateOp(top))) =>
            IF Gas < PriceOf(top.OpCode)
            THEN /\ services' = SetTop(Fail(top, ERR_GAS_INSUFFICIENT))
                 /\ Gas' = Gas
                 /\ Contexts' = Contexts
                 /\ Notifications' = Notifications
                 /\ CacheDB' = CacheDB
            ELSE /\ services' = SetTop([top EXCEPT !.pc = "dispatch"])
                 /\ Gas' = Gas - PriceOf(top.OpCode)
       /\ (Running /\ Len(services') = Len(services)) =>
            /\ (services'[Len(services)].pc = "exec" /\ top.pc # "exec") =>
                   top.pc = "loop"
            /\ (services'[Len(services)].pc = "stack" /\ top.pc # "stack") =>
                   top.pc = "exec"
            /\ (services'[Len(services)].pc = "gas" /\ top.pc # "gas") =>
                   top.pc = "stack"
            /\ (services'[Len(services)].pc = "dispatch" /\ top.pc # "dispatch") =>
                   top.pc = "gas"
            /\ (\/ services'[Len(services)].eval # top.eval
                \/ services'[Len(services)].alt # top.alt
                \/ services'[Len(services)].Notifications # top.Notifications
                \/ CacheDB' # CacheDB) =>
                   top.pc = "dispatch"
       /\ (Running /\ Len(services') > Len(services)) =>
            top.pc = "dispatch" /\ top.OpCode = APPCALL
       /\ (Running /\ top.pc = "error") => Gas' = Gas
    ]_vars

\* An APPCALL could not be paid for: the script failed with the
\* insufficient-gas error, gas left, and no child engine was ever created.
C17_Witness ==
    /\ Failed
    /\ top.OpCode = APPCALL
    /\ top.err = ERR_GAS_INSUFFICIENT
    /\ Gas = GasPrice("APPCALL") - 1
    /\ hist.nacts = 1
    /\ Len(Contexts) = 1

\* C18: CheckUseGas(g) succeeds and leaves Gas - g whenever g <= Gas, a
\* charge of all the remaining gas included, and fails leaving Gas as it was
\* whenever g > Gas; so the charge of an opcode or of a service fails with
\* the insufficient-gas error if and only if its price exceeds the remaining
\* gas.
C18_ChargeExact ==
    /\ [](\A g \in 0..(MaxGas + 1) :
             IF g <= Gas
             THEN CheckUseGas(Gas, g) = [ok |-> TRUE, Gas |-> Gas - g]
             ELSE CheckUseGas(Gas, g) = [ok |-> FALSE, Gas |-> Gas])
    /\ [][/\ (GasStep /\ (IsPushBytes(top.OpCode) \/ ValidateOp(top))) =>
                /\ ((services'[Len(services)].pc = "error"
                        /\ services'[Len(services)].err = ERR_GAS_INSUFFICIENT)
                       <=> (PriceOf(top.OpCode) > Gas))
                /\ Gas' = IF PriceOf(top.OpCode) > Gas THEN Gas
                                                         ELSE Gas - PriceOf(top.OpCode)
          /\ (SysStep /\ SysName \in DOMAIN ServiceMap /\ ValidatorPasses) =>
                /\ ((services'[Len(services)].pc = "error"
                        /\ services'[Len(services)].err =
                               NewDetailErr(ERR_GAS_INSUFFICIENT, ERR_SYSCALL))
                       <=> (GasPrice(SysName) > Gas))
                /\ Gas' = IF GasPrice(SysName) > Gas THEN Gas
                                                       ELSE Gas - GasPrice(SysName)
          ]_vars

\* An execution whose last charge took all the remaining gas has halted
\* with success.
C18_Witness ==
    /\ receipt.state = "HALT"
    /\ Gas = 0
    /\ hist.InitGas > 0
    /\ receipt.gas_consumed = hist.InitGas

\* C19 as claimed: ExecStep is never changed outside PreExec mode, and in
\* PreExec mode its value after an execution is the number of opcodes that
\* were executed, across all nested invocations.
C19_StepPerOpcode ==
    /\ ~PreExec => ExecStep = 0
    /\ (PreExec /\ ~Running) => ExecStep = hist.opcodes

\* C19, amended: ExecStep is never changed outside PreExec mode; in PreExec
\* mode it grows by one at every head of the Invoke loop that the step limit
\* lets through and nowhere else, so that after an execution it is the number
\* of opcodes executed plus the number of invocations that ran to their end.
C19_StepPerIteration ==
    /\ [](~PreExec => ExecStep = 0)
    /\ []((PreExec /\ ~Running) => ExecStep = hist.opcodes + hist.halts)
    /\ [][ExecStep' # ExecStep =>
              /\ PreExec
              /\ top.pc = "loop"
              /\ ExecStep' = ExecStep + 1
              /\ services'[Len(services)].pc \in {"exec", "halt"}]_vars
    /\ [][(Running /\ top.pc = "loop" /\ PreExec
              /\ services'[Len(services)].pc # "error") =>
              ExecStep' = ExecStep + 1]_vars

\* A PreExec execution with a nested call has halted: the counter stands
\* above the number of opcodes by the two invocations that ran to their end.
C19_Witness ==
    /\ PreExec
    /\ receipt.state = "HALT"
    /\ hist.halts = 2
    /\ hist.opcodes > 0
    /\ ExecStep = hist.opcodes + 2

\* C20: PopContext leaves a context stack of depth below 2 as it is and
\* otherwise removes exactly the top entry; so from the first push on, the
\* entry context Contexts[0] stays in place whatever is pushed and popped,
\* the return of the outermost Invoke included.
C20_EntryContextKept ==
    /\ [](PopContext(Contexts) =
             IF Len(Contexts) < 2 THEN Contexts
             ELSE [i \in 1..(Len(Contexts) - 1) |-> Contexts[i]])
    /\ [][Contexts # <<>> =>
              /\ Contexts' # <<>>
              /\ Contexts'[1] = Contexts[1]
              /\ EntryContext(Contexts') = EntryContext(Contexts)]_vars
    /\ [][(Running /\ top.pc = "halt") =>
              Contexts' = IF Len(Contexts) < 2 THEN Contexts
                          ELSE SubSeq(Contexts, 1, Len(Contexts) - 1)]_vars
    /\ []((receipt.state = "HALT") =>
              Contexts = <<[ContractAddress |-> AddressFromVmCode(top.Code)]>>)

\* Contract A, which calls B, has returned as the outermost Invoke: its
\* context, the entry context, is still on the context stack, alone.
C20_Witness ==
    /\ receipt.state = "HALT"
    /\ top.Code = "A"
    /\ hist.nacts = 2
    /\ Contexts = <<[ContractAddress |-> "A"]>>
    /\ EntryContext(Contexts) = [ContractAddress |-> "A"]

\* Activation i has pushed its context and has not returned.
InProgress(i) == services[i].pc \notin {"start", "returned", "error"}

\* C21: while the top-level Invoke runs and no Invoke has failed, the depth of
\* the context stack is the number of Invoke activations in progress; when
\* the child Invoke of an APPCALL returns with success the context stack is
\* what it was just before the APPCALL; and an Invoke that returns an error
\* leaves the contexts on the stack, its own included.
C21_ContextBalance ==
    /\ []((Running /\ ~Halted /\ top.pc # "error") =>
             Len(Contexts) = Cardinality({i \in 1..Len(services) : InProgress(i)}))
    /\ []((Running /\ Len(services) >= 2 /\ top.pc = "returned") =>
             Contexts = hist.atCall[Len(hist.atCall)])
    /\ [][(Running /\ Len(services) >= 2 /\ top.pc = "returned") =>
              Contexts' = Contexts]_vars
    /\ [][(Running /\ services'[Len(services')].pc = "error") =>
              Contexts' = Contexts]_vars

\* The script that calls K, which calls W, has failed in W: the contexts of
\* all three activations are still on the context stack.
C21_Witness ==
    /\ receipt.state = "FAIL"
    /\ top.Code = "T1"
    /\ Contexts = <<[ContractAddress |-> "T1"], [ContractAddress |-> "K"],
                    [ContractAddress |-> "W"]>>

\* C22: all nested invocations of a transaction charge the one Gas and
\* count the one ExecStep of the SmartContract, and share its CacheDB and
\* PreExec: entering and leaving a callee neither resets nor restores them,
\* every price accepted at any depth is taken from Gas, so that the sum of
\* all charges is the initial gas less the remaining gas and never exceeds
\* the initial gas.
C22_SharedCounters ==
    /\ [](/\ hist.charged = hist.InitGas - Gas
          /\ hist.charged <= hist.InitGas
          /\ hist.deep <= hist.charged)
    /\ [][Len(services') # Len(services) =>
              /\ Gas' = Gas
              /\ ExecStep' = ExecStep
              /\ CacheDB' = CacheDB
              /\ PreExec' = PreExec]_vars
    /\ [][(Len(services) >= 2 /\ hist'.deep # hist.deep) =>
              Gas' = Gas - (hist'.deep - hist.deep)]_vars
    /\ [][(PreExec /\ Running /\ top.pc = "loop"
              /\ services'[Len(services)].pc # "error") =>
              ExecStep' = ExecStep + 1]_vars

\* Contract A could not pay for an opcode after B, which it had called, had
\* returned: what B charged was missing from the gas A was left with.
C22_Witness ==
    /\ Failed
    /\ top.Code = "A"
    /\ top.err = ERR_GAS_INSUFFICIENT
    /\ hist.nacts = 2
    /\ hist.deep > 0
    /\ Gas < OPCODE_GAS
    /\ Gas + hist.deep >= OPCODE_GAS

DecodeDone == ontid.fn = "decodeID" /\ ontid.pc = "done"

\* decodeID returned bytes and no error.
DecodeAccepted == DecodeDone /\ ~ontid.panic /\ ontid.err = ""

\* The input has a length byte and as many bytes after it as the byte says.
WellSized(data) ==
    /\ Len(data) > ADDR_LEN
    /\ Len(data) = ADDR_LEN + 1 + data[ADDR_LEN + 1]

\* C23 as claimed: decodeID(encodeID(id)) returns id for every id of 1 to
\* 255 bytes, and every byte string decodeID accepts is one that encodeID
\* produces: the contract address, the length and a non-empty id.
C23_RoundTripAndConverse ==
    /\ (DecodeDone /\ ontid.orig # <<>>) =>
           (~ontid.panic /\ ontid.err = "" /\ ontid.ret = ontid.orig)
    /\ DecodeAccepted =>
           /\ encodeID(ontid.ret).err = ""
           /\ encodeID(ontid.ret).ret = ontid.data

\* C23, amended: decodeID(encodeID(id)) returns id for every id of 1 to 255
\* bytes; decodeID accepts exactly the inputs of more than 20 bytes whose
\* 21st byte is the number of bytes after it, and returns those bytes; it
\* looks neither at the first 20 bytes nor at whether the id is empty, so an
\* accepted input is an encoding only if it starts with the contract address
\* and its id is not empty.
C23_RoundTrip ==
    /\ (DecodeDone /\ ontid.orig # <<>>) =>
           (~ontid.panic /\ ontid.err = "" /\ ontid.ret = ontid.orig)
    /\ (DecodeDone /\ ~ontid.panic) =>
           (ontid.err = "" <=> WellSized(ontid.data))
    /\ DecodeAccepted =>
           /\ ontid.ret = SubSeq(ontid.data, ADDR_LEN + 2, Len(ontid.data))
           /\ (encodeID(ontid.ret).err = "" /\ encodeID(ontid.ret).ret = ontid.data)
                  <=> (/\ SubSeq(ontid.data, 1, ADDR_LEN) = OntIDContractAddress
                       /\ ontid.ret # <<>>)

\* The encoding of an id of the greatest length has been decoded to the id.
C23_Witness ==
    /\ DecodeAccepted
    /\ Len(ontid.orig) = MAX_ID_LEN
    /\ ontid.ret = ontid.orig
    /\ ontid.data = encodeID(ontid.orig).ret

\* C24 as claimed: for every input whose length is not 20 + 1 + the value
\* of its length byte, inputs of 20 bytes and fewer included, decodeID
\* returns an error and reads nothing outside its input.
C24_DecodeRejects ==
    (DecodeDone /\ ~WellSized(ontid.data)) =>
        (~ontid.panic /\ ontid.err = ERR_DECODE_ID)

====
